---------------------------- MODULE Spec2Model ----------------------------
(***************************************************************************)
(* EPID: Type-C PID controller library (src/src/pid.c, src/src/pid.h).     *)
(*                                                                         *)
(* A C `float` is modelled as an extended rational: a finite value n/d in  *)
(* lowest terms, +infinity, -infinity or NaN, with the IEEE-754 rules for  *)
(* the special values (NaN propagates, inf - inf = NaN, 0 * inf = NaN,     *)
(* every ordered comparison with NaN is false).  Arithmetic on finite      *)
(* values is exact: binary32 rounding, overflow of finite operands and the *)
(* sign of zero are not modelled.                                          *)
(***************************************************************************)
EXTENDS Integers, FiniteSets, Sequences, TLC

VARIABLES
    ctx,      \* the epid_t context the caller owns (pid.h:78-94)
    inited,   \* an initializer has returned EPID_ERR_NONE on ctx
    call,     \* the API call made last, its arguments and its return value
    feed,     \* the kind of signal the caller passes to the loop in this run
    lpf,      \* the epid_lpf_t context the caller owns (pid.h:96-99)
    lpf_inited, \* epid_util_lpf_init has returned EPID_ERR_NONE on lpf
    run       \* the record of the sample loop of main since epid_init

vars == <<ctx, inited, call, feed, lpf, lpf_inited, run>>

---------------------------------------------------------------------------
(* float values *)

Abs(i) == IF i < 0 THEN -i ELSE i

Sign(i) == IF i < 0 THEN -1 ELSE IF i > 0 THEN 1 ELSE 0

RECURSIVE GCD(_, _)
GCD(a, b) == IF b = 0 THEN a ELSE GCD(b, a % b)

NaN  == [k |-> "nan",  n |-> 0, d |-> 1]
PInf == [k |-> "pinf", n |-> 0, d |-> 1]
NInf == [k |-> "ninf", n |-> 0, d |-> 1]

\* the finite value n/d (d > 0), in lowest terms
Fin(n, d) ==
    LET g == GCD(Abs(n), d)
    IN  [k |-> "fin", n |-> n \div g, d |-> d \div g]

F(i) == Fin(i, 1)

isnan(x) == x.k = "nan"

isfinite(x) == x.k = "fin"

\* -1, 0, 1: the sign of a value that is not NaN
FSign(x) ==
    CASE x.k = "pinf" -> 1
      [] x.k = "ninf" -> -1
      [] OTHER        -> Sign(x.n)

InfOf(s) == IF s > 0 THEN PInf ELSE IF s < 0 THEN NInf ELSE NaN

FNeg(x) ==
    CASE x.k = "pinf" -> NInf
      [] x.k = "ninf" -> PInf
      [] x.k = "nan"  -> NaN
      [] OTHER        -> Fin(-x.n, x.d)

FAdd(x, y) ==
    CASE x.k = "nan" \/ y.k = "nan"     -> NaN
      [] x.k = "fin" /\ y.k = "fin"     -> Fin(x.n * y.d + y.n * x.d, x.d * y.d)
      [] x.k = "fin"                    -> y
      [] y.k = "fin"                    -> x
      [] OTHER                          -> IF x.k = y.k THEN x ELSE NaN

FSub(x, y) == FAdd(x, FNeg(y))

FMul(x, y) ==
    CASE x.k = "nan" \/ y.k = "nan"     -> NaN
      [] x.k = "fin" /\ y.k = "fin"     -> Fin(x.n * y.n, x.d * y.d)
      [] OTHER                          -> InfOf(FSign(x) * FSign(y))

FDiv(x, y) ==
    CASE x.k = "nan" \/ y.k = "nan"     -> NaN
      [] x.k = "fin" /\ y.k = "fin"     ->
            IF y.n = 0
            THEN InfOf(Sign(x.n))
            ELSE Fin(x.n * y.d * Sign(y.n), x.d * Abs(y.n))
      [] x.k = "fin"                    -> F(0)
      [] y.k = "fin"                    ->
            InfOf(FSign(x) * (IF y.n < 0 THEN -1 ELSE 1))
      [] OTHER                          -> NaN

\* the C comparisons x < y, x <= y, x > y, x >= y: false when either is NaN
FLt(x, y) ==
    /\ x.k # "nan"
    /\ y.k # "nan"
    /\ x # y
    /\ \/ x.k = "ninf"
       \/ y.k = "pinf"
       \/ x.k = "fin" /\ y.k = "fin" /\ x.n * y.d < y.n * x.d

FLe(x, y) == x.k # "nan" /\ y.k # "nan" /\ (x = y \/ FLt(x, y))

FGt(x, y) == FLt(y, x)

FGe(x, y) == FLe(y, x)

EPID_FP_ZERO == F(0)

EPID_FP_ONE == F(1)

EPID_ERR_INIT == 0
EPID_ERR_FLT  == 1
EPID_ERR_NONE == 2

---------------------------------------------------------------------------
(* the controller's operations, as functions of the context *)

\* faults of epid_init: the two history seeds stored crosswise; a zero kp
\* let through; the fields written before the gains are checked; kd not
\* checked
epid_init_crossed(c, ctx_null, xk_1, xk_2, y_previous, kp, ki, kd) ==
    IF \/ ~isfinite(xk_1) \/ ~isfinite(xk_2) \/ ~isfinite(y_previous)
       \/ ~isfinite(kp) \/ ~isfinite(ki) \/ ~isfinite(kd)
    THEN [ret |-> EPID_ERR_FLT, ctx |-> c]
    ELSE IF \/ ctx_null
            \/ FLe(kp, EPID_FP_ZERO)
            \/ FLe(ki, EPID_FP_ZERO)
            \/ FLt(kd, EPID_FP_ZERO)
    THEN [ret |-> EPID_ERR_INIT, ctx |-> c]
    ELSE [ret |-> EPID_ERR_NONE,
          ctx |-> [c EXCEPT !.xk_1 = xk_2, !.xk_2 = xk_1, !.y_out = y_previous,
                            !.kp = kp, !.ki = ki, !.kd = kd]]

epid_init_zero_kp(c, ctx_null, xk_1, xk_2, y_previous, kp, ki, kd) ==
    IF \/ ~isfinite(xk_1) \/ ~isfinite(xk_2) \/ ~isfinite(y_previous)
       \/ ~isfinite(kp) \/ ~isfinite(ki) \/ ~isfinite(kd)
    THEN [ret |-> EPID_ERR_FLT, ctx |-> c]
    ELSE IF \/ ctx_null
            \/ FLt(kp, EPID_FP_ZERO)
            \/ FLe(ki, EPID_FP_ZERO)
            \/ FLt(kd, EPID_FP_ZERO)
    THEN [ret |-> EPID_ERR_INIT, ctx |-> c]
    ELSE [ret |-> EPID_ERR_NONE,
          ctx |-> [c EXCEPT !.xk_1 = xk_1, !.xk_2 = xk_2, !.y_out = y_previous,
                            !.kp = kp, !.ki = ki, !.kd = kd]]

epid_init_write_first(c, ctx_null, xk_1, xk_2, y_previous, kp, ki, kd) ==
    LET w == [c EXCEPT !.xk_1 = xk_1, !.xk_2 = xk_2, !.y_out = y_previous,
                       !.kp = kp, !.ki = ki, !.kd = kd]
    IN  IF \/ ~isfinite(xk_1) \/ ~isfinite(xk_2) \/ ~isfinite(y_previous)
           \/ ~isfinite(kp) \/ ~isfinite(ki) \/ ~isfinite(kd)
        THEN [ret |-> EPID_ERR_FLT, ctx |-> c]
        ELSE IF ctx_null
        THEN [ret |-> EPID_ERR_INIT, ctx |-> c]
        ELSE IF \/ FLe(kp, EPID_FP_ZERO)
                \/ FLe(ki, EPID_FP_ZERO)
                \/ FLt(kd, EPID_FP_ZERO)
        THEN [ret |-> EPID_ERR_INIT, ctx |-> w]
        ELSE [ret |-> EPID_ERR_NONE, ctx |-> w]

epid_init_any_kd(c, ctx_null, xk_1, xk_2, y_previous, kp, ki, kd) ==
    IF \/ ~isfinite(xk_1) \/ ~isfinite(xk_2) \/ ~isfinite(y_previous)
       \/ ~isfinite(kp) \/ ~isfinite(ki) \/ ~isfinite(kd)
    THEN [ret |-> EPID_ERR_FLT, ctx |-> c]
    ELSE IF \/ ctx_null
            \/ FLe(kp, EPID_FP_ZERO)
            \/ FLe(ki, EPID_FP_ZERO)
    THEN [ret |-> EPID_ERR_INIT, ctx |-> c]
    ELSE [ret |-> EPID_ERR_NONE,
          ctx |-> [c EXCEPT !.xk_1 = xk_1, !.xk_2 = xk_2, !.y_out = y_previous,
                            !.kp = kp, !.ki = ki, !.kd = kd]]

\* a fault of epid_init: the null and sign tests put before the finiteness
\* tests
epid_init_sign_first(c, ctx_null, xk_1, xk_2, y_previous, kp, ki, kd) ==
    IF \/ ctx_null
       \/ FLe(kp, EPID_FP_ZERO)
       \/ FLe(ki, EPID_FP_ZERO)
       \/ FLt(kd, EPID_FP_ZERO)
    THEN [ret |-> EPID_ERR_INIT, ctx |-> c]
    ELSE IF \/ ~isfinite(xk_1)
            \/ ~isfinite(xk_2)
            \/ ~isfinite(y_previous)
            \/ ~isfinite(kp)
            \/ ~isfinite(ki)
            \/ ~isfinite(kd)
    THEN [ret |-> EPID_ERR_FLT, ctx |-> c]
    ELSE [ret |-> EPID_ERR_NONE,
          ctx |-> [c EXCEPT !.xk_1 = xk_1, !.xk_2 = xk_2, !.y_out = y_previous,
                            !.kp = kp, !.ki = ki, !.kd = kd]]

\* a fault of epid_init: the three terms cleared on success
epid_init_clears_terms(c, ctx_null, xk_1, xk_2, y_previous, kp, ki, kd) ==
    IF \/ ~isfinite(xk_1)
       \/ ~isfinite(xk_2)
       \/ ~isfinite(y_previous)
       \/ ~isfinite(kp)
       \/ ~isfinite(ki)
       \/ ~isfinite(kd)
    THEN [ret |-> EPID_ERR_FLT, ctx |-> c]
    ELSE IF \/ ctx_null
            \/ FLe(kp, EPID_FP_ZERO)
            \/ FLe(ki, EPID_FP_ZERO)
            \/ FLt(kd, EPID_FP_ZERO)
    THEN [ret |-> EPID_ERR_INIT, ctx |-> c]
    ELSE [ret |-> EPID_ERR_NONE,
          ctx |-> [c EXCEPT !.xk_1 = xk_1, !.xk_2 = xk_2, !.y_out = y_previous,
                            !.kp = kp, !.ki = ki, !.kd = kd,
                            !.p_term = EPID_FP_ZERO,
                            !.i_term = EPID_FP_ZERO,
                            !.d_term = EPID_FP_ZERO]]

\* epid_init: the context afterwards and the value returned
epid_init(c, ctx_null, xk_1, xk_2, y_previous, kp, ki, kd) ==
    IF \/ ~isfinite(xk_1)
       \/ ~isfinite(xk_2)
       \/ ~isfinite(y_previous)
       \/ ~isfinite(kp)
       \/ ~isfinite(ki)
       \/ ~isfinite(kd)
    THEN [ret |-> EPID_ERR_FLT, ctx |-> c]
    ELSE IF \/ ctx_null
            \/ FLe(kp, EPID_FP_ZERO)
            \/ FLe(ki, EPID_FP_ZERO)
            \/ FLt(kd, EPID_FP_ZERO)
    THEN [ret |-> EPID_ERR_INIT, ctx |-> c]
    ELSE [ret |-> EPID_ERR_NONE,
          ctx |-> [c EXCEPT !.xk_1 = xk_1, !.xk_2 = xk_2, !.y_out = y_previous,
                            !.kp = kp, !.ki = ki, !.kd = kd]]

\* a fault of the derivation: Ti and Ts exchanged
derived_ki_inverted(kp, ti, sample_period) == FDiv(FMul(kp, ti), sample_period)

\* the gains epid_init_T hands to epid_init
derived_ki(kp, ti, sample_period) == FDiv(FMul(kp, sample_period), ti)

derived_kd(kp, td, sample_period) == FMul(kp, FDiv(td, sample_period))

\* a fault of epid_init_T: td = 0 turned away
epid_init_T_zero_td(c, ctx_null, xk_1, xk_2, y_previous, kp, ti, td, sample_period) ==
    IF ~isfinite(ti) \/ ~isfinite(sample_period)
    THEN [ret |-> EPID_ERR_FLT, ctx |-> c, delegated |-> FALSE]
    ELSE IF \/ FLe(ti, EPID_FP_ZERO)
            \/ FLe(td, EPID_FP_ZERO)
            \/ FLe(sample_period, EPID_FP_ZERO)
    THEN [ret |-> EPID_ERR_INIT, ctx |-> c, delegated |-> FALSE]
    ELSE LET r == epid_init(c, ctx_null, xk_1, xk_2, y_previous, kp,
                            derived_ki(kp, ti, sample_period),
                            derived_kd(kp, td, sample_period))
         IN  [ret |-> r.ret, ctx |-> r.ctx, delegated |-> TRUE]

\* a fault of epid_init_T: the finiteness of ti and sample_period left to
\* epid_init
epid_init_T_unchecked(c, ctx_null, xk_1, xk_2, y_previous, kp, ti, td, sample_period) ==
    IF \/ FLe(ti, EPID_FP_ZERO)
       \/ FLt(td, EPID_FP_ZERO)
       \/ FLe(sample_period, EPID_FP_ZERO)
    THEN [ret |-> EPID_ERR_INIT, ctx |-> c, delegated |-> FALSE]
    ELSE LET r == epid_init(c, ctx_null, xk_1, xk_2, y_previous, kp,
                            derived_ki(kp, ti, sample_period),
                            derived_kd(kp, td, sample_period))
         IN  [ret |-> r.ret, ctx |-> r.ctx, delegated |-> TRUE]

\* epid_init_T: the context afterwards, the value returned, and whether
\* epid_init was called
epid_init_T(c, ctx_null, xk_1, xk_2, y_previous, kp, ti, td, sample_period) ==
    IF ~isfinite(ti) \/ ~isfinite(sample_period)
    THEN [ret |-> EPID_ERR_FLT, ctx |-> c, delegated |-> FALSE]
    ELSE IF \/ FLe(ti, EPID_FP_ZERO)
            \/ FLt(td, EPID_FP_ZERO)
            \/ FLe(sample_period, EPID_FP_ZERO)
    THEN [ret |-> EPID_ERR_INIT, ctx |-> c, delegated |-> FALSE]
    ELSE LET r == epid_init(c, ctx_null, xk_1, xk_2, y_previous, kp,
                            derived_ki(kp, ti, sample_period),
                            derived_kd(kp, td, sample_period))
         IN  [ret |-> r.ret, ctx |-> r.ctx, delegated |-> TRUE]

\* a fault of epid_pi_calc: the history shifted as the PID variant does
epid_pi_calc_shifts(c, setpoint, measure) ==
    [c EXCEPT !.p_term = FMul(c.kp, FSub(c.xk_1, measure)),
              !.i_term = FMul(c.ki, FSub(setpoint, measure)),
              !.xk_2   = c.xk_1,
              !.xk_1   = measure]

epid_pi_calc(c, setpoint, measure) ==
    [c EXCEPT !.p_term = FMul(c.kp, FSub(c.xk_1, measure)),
              !.i_term = FMul(c.ki, FSub(setpoint, measure)),
              !.xk_1   = measure]

\* a fault of epid_pid_calc: the D-term taken after the history is shifted
epid_pid_calc_late(c, setpoint, measure) ==
    LET p0 == FSub(c.xk_1, measure)
    IN  [c EXCEPT !.d_term = FMul(c.kd, FSub(FAdd(measure, p0), c.xk_1)),
                  !.p_term = FMul(c.kp, p0),
                  !.i_term = FMul(c.ki, FSub(setpoint, measure)),
                  !.xk_2   = c.xk_1,
                  !.xk_1   = measure]

\* a fault of epid_pid_calc: the P-term taken from the error (a Type-A loop)
epid_pid_calc_on_error(c, setpoint, measure) ==
    LET p0 == FSub(c.xk_1, measure)
    IN  [c EXCEPT !.d_term = FMul(c.kd, FSub(FAdd(c.xk_1, p0), c.xk_2)),
                  !.p_term = FMul(c.kp, FSub(setpoint, measure)),
                  !.i_term = FMul(c.ki, FSub(setpoint, measure)),
                  !.xk_2   = c.xk_1,
                  !.xk_1   = measure]

\* a fault of epid_pid_calc: xk_2 left as it was
epid_pid_calc_no_shift(c, setpoint, measure) ==
    LET p0 == FSub(c.xk_1, measure)
    IN  [c EXCEPT !.d_term = FMul(c.kd, FSub(FAdd(c.xk_1, p0), c.xk_2)),
                  !.p_term = FMul(c.kp, p0),
                  !.i_term = FMul(c.ki, FSub(setpoint, measure)),
                  !.xk_1   = measure]

\* a fault of epid_pid_calc: the measure never stored in xk_1
epid_pid_calc_keeps_xk_1(c, setpoint, measure) ==
    LET p0 == FSub(c.xk_1, measure)
    IN  [c EXCEPT !.d_term = FMul(c.kd, FSub(FAdd(c.xk_1, p0), c.xk_2)),
                  !.p_term = FMul(c.kp, p0),
                  !.i_term = FMul(c.ki, FSub(setpoint, measure)),
                  !.xk_2   = c.xk_1]

epid_pid_calc(c, setpoint, measure) ==
    LET p0 == FSub(c.xk_1, measure)
    IN  [c EXCEPT !.d_term = FMul(c.kd, FSub(FAdd(c.xk_1, p0), c.xk_2)),
                  !.p_term = FMul(c.kp, p0),
                  !.i_term = FMul(c.ki, FSub(setpoint, measure)),
                  !.xk_2   = c.xk_1,
                  !.xk_1   = measure]

\* a fault of the clamp: no floor
limit_output_no_floor(y, out_min, out_max) ==
    IF FGt(y, out_max) THEN out_max ELSE y

\* a fault of the clamp: the tests negated, so that a NaN is clamped too
limit_output_negated(y, out_min, out_max) ==
    IF ~FLe(y, out_max) THEN out_max
    ELSE IF ~FGe(y, out_min) THEN out_min
    ELSE y

\* the clamp both summations end with
limit_output(y, out_min, out_max) ==
    IF FGt(y, out_max) THEN out_max
    ELSE IF FLt(y, out_min) THEN out_min
    ELSE y

\* a fault of epid_pi_sum: the stale D-term summed as well
epid_pi_sum_adds_d(c, out_min, out_max) ==
    LET y_prev == c.y_out
        y_sum  == FAdd(c.y_out, FAdd(FAdd(c.p_term, c.i_term), c.d_term))
        y_chk  == IF isnan(y_sum) \/ isnan(c.p_term) \/ isnan(c.i_term)
                  THEN y_prev ELSE y_sum
    IN  [c EXCEPT !.y_out = limit_output(y_chk, out_min, out_max)]

\* a fault of epid_pi_sum: no NaN guard
epid_pi_sum_unguarded(c, out_min, out_max) ==
    LET y_sum == FAdd(c.y_out, FAdd(c.p_term, c.i_term))
    IN  [c EXCEPT !.y_out = limit_output(y_sum, out_min, out_max)]

epid_pi_sum(c, out_min, out_max) ==
    LET y_prev == c.y_out
        y_sum  == FAdd(c.y_out, FAdd(c.p_term, c.i_term))
        y_chk  == IF isnan(y_sum) \/ isnan(c.p_term) \/ isnan(c.i_term)
                  THEN y_prev ELSE y_sum
    IN  [c EXCEPT !.y_out = limit_output(y_chk, out_min, out_max)]

\* a fault of epid_pid_sum: the NaN guard zeroes the output
epid_pid_sum_resets(c, out_min, out_max) ==
    LET y_sum  == FAdd(c.y_out, FAdd(FAdd(c.p_term, c.i_term), c.d_term))
        y_chk  == IF \/ isnan(y_sum)
                     \/ isnan(c.p_term)
                     \/ isnan(c.i_term)
                     \/ isnan(c.d_term)
                  THEN EPID_FP_ZERO ELSE y_sum
    IN  [c EXCEPT !.y_out = limit_output(y_chk, out_min, out_max)]

epid_pid_sum(c, out_min, out_max) ==
    LET y_prev == c.y_out
        y_sum  == FAdd(c.y_out, FAdd(FAdd(c.p_term, c.i_term), c.d_term))
        y_chk  == IF \/ isnan(y_sum)
                     \/ isnan(c.p_term)
                     \/ isnan(c.i_term)
                     \/ isnan(c.d_term)
                  THEN y_prev ELSE y_sum
    IN  [c EXCEPT !.y_out = limit_output(y_chk, out_min, out_max)]

\* a fault of epid_util_ilim: the limits exchanged
epid_util_ilim_swapped(c, i_min, i_max) ==
    IF FGt(c.i_term, i_max) THEN [c EXCEPT !.i_term = i_min]
    ELSE IF FLt(c.i_term, i_min) THEN [c EXCEPT !.i_term = i_max]
    ELSE c

epid_util_ilim(c, i_min, i_max) ==
    IF FGt(c.i_term, i_max) THEN [c EXCEPT !.i_term = i_max]
    ELSE IF FLt(c.i_term, i_min) THEN [c EXCEPT !.i_term = i_min]
    ELSE c

\* a fault of epid_util_lpf_init: the seed stored as it is
epid_util_lpf_init_plain_seed(f, ctx_null, smoothing_factor, x_0) ==
    IF ~isfinite(smoothing_factor) \/ ~isfinite(x_0)
    THEN [ret |-> EPID_ERR_FLT, lpf |-> f]
    ELSE IF \/ ctx_null
            \/ FLe(smoothing_factor, EPID_FP_ZERO)
            \/ FGe(smoothing_factor, EPID_FP_ONE)
    THEN [ret |-> EPID_ERR_INIT, lpf |-> f]
    ELSE [ret |-> EPID_ERR_NONE,
          lpf |-> [smoothing_factor |-> smoothing_factor, y |-> x_0]]

\* a fault of epid_util_lpf_init: the closed interval [0, 1] accepted
epid_util_lpf_init_closed(f, ctx_null, smoothing_factor, x_0) ==
    IF ~isfinite(smoothing_factor) \/ ~isfinite(x_0)
    THEN [ret |-> EPID_ERR_FLT, lpf |-> f]
    ELSE IF \/ ctx_null
            \/ FLt(smoothing_factor, EPID_FP_ZERO)
            \/ FGt(smoothing_factor, EPID_FP_ONE)
    THEN [ret |-> EPID_ERR_INIT, lpf |-> f]
    ELSE [ret |-> EPID_ERR_NONE,
          lpf |-> [smoothing_factor |-> smoothing_factor,
                   y |-> FMul(smoothing_factor, x_0)]]

\* epid_util_lpf_init: the filter context afterwards and the value returned
epid_util_lpf_init(f, ctx_null, smoothing_factor, x_0) ==
    IF ~isfinite(smoothing_factor) \/ ~isfinite(x_0)
    THEN [ret |-> EPID_ERR_FLT, lpf |-> f]
    ELSE IF \/ ctx_null
            \/ FLe(smoothing_factor, EPID_FP_ZERO)
            \/ FGe(smoothing_factor, EPID_FP_ONE)
    THEN [ret |-> EPID_ERR_INIT, lpf |-> f]
    ELSE [ret |-> EPID_ERR_NONE,
          lpf |-> [smoothing_factor |-> smoothing_factor,
                   y |-> FMul(smoothing_factor, x_0)]]

\* a fault of epid_util_lpf_calc: the difference taken the wrong way round
epid_util_lpf_calc_reversed(f, input) ==
    LET y_prev == f.y
    IN  [f EXCEPT !.y = FAdd(y_prev,
                             FMul(f.smoothing_factor, FSub(y_prev, input)))]

epid_util_lpf_calc(f, input) ==
    LET y_prev == f.y
    IN  [f EXCEPT !.y = FAdd(y_prev,
                             FMul(f.smoothing_factor, FSub(input, y_prev)))]

---------------------------------------------------------------------------
(* bounds of the model and the values the caller passes *)

MaxMeasure == 1
MaxOut     == 2
MaxGain    == 2

\* A run's signals are all finite, or may be NaN, or may be infinite.
Feeds == {"finite", "nan", "inf"}

\* setpoints and measures
SampleVals ==
    CASE feed = "finite" -> {F(i) : i \in 0..MaxMeasure}
      [] feed = "nan"    -> {F(0), NaN}
      [] feed = "inf"    -> {F(0), PInf}

\* output bounds and anti-windup limits
LimitVals ==
    {F(-1), F(1)}
        \cup (IF feed = "nan" THEN {NaN} ELSE {})
        \cup (IF feed = "inf" THEN {NInf, PInf} ELSE {})

\* |y| <= MaxOut for a finite y: the cap on the accumulator
InRange(y) == isfinite(y) => Abs(y.n) <= MaxOut * y.d

\* storage that was never initialised holds any values: a zero-filled
\* static object, or stale stack contents
CtxZero ==
    [kp |-> F(0), ki |-> F(0), kd |-> F(0), xk_1 |-> F(0), xk_2 |-> F(0),
     p_term |-> F(0), i_term |-> F(0), d_term |-> F(0), y_out |-> F(0)]

CtxStale ==
    [kp |-> F(-1), ki |-> NaN, kd |-> F(-2), xk_1 |-> F(1), xk_2 |-> PInf,
     p_term |-> F(1), i_term |-> F(-1), d_term |-> F(2), y_out |-> NaN]

\* a context in use: initialised, then one calculation and one summation
CtxRunning ==
    [kp |-> F(2), ki |-> F(1), kd |-> F(3), xk_1 |-> F(1), xk_2 |-> F(0),
     p_term |-> F(-2), i_term |-> F(0), d_term |-> F(-6), y_out |-> F(-1)]

NoCall == [op |-> "none"]

\* arguments of a lone initializer call: every kind of value in every place
\* (a different finite value in each, so that a misplaced copy shows)
InitXk1Vals == {F(1), NaN, PInf}

InitXk2Vals == {F(2), NaN, NInf}

InitYVals == {F(3), NaN, PInf}

InitGainVals == {F(i) : i \in -1..MaxGain} \cup {NaN, PInf}

InitTimeVals == {F(-1), F(0), Fin(1, 2), F(2), NaN, NInf}

\* the sample loop of main: the calls made since the last successful
\* epid_init (n), its seeds (x_0, x_m1, y0), the last two measures (xn, xp),
\* the sum of setpoint - measure over the calculations (isum), the complete
\* calculation-summation cycles (cycles), whether the calls so far were such
\* cycles with finite samples and no saturation (clean), and the number, up
\* to 3, of
\* epid_pid_calc calls in a row with setpoint = measure = m (steady)
NoRun ==
    [n |-> 0, x_0 |-> F(0), x_m1 |-> F(0), y0 |-> F(0),
     xn |-> F(0), xp |-> F(0), isum |-> F(0),
     cycles |-> 0, clean |-> FALSE, steady |-> 0, m |-> F(0)]

\* calls per run of the sample loop
MaxSteps == 6

\* seeds of the sample loop
CycleVals == {F(i) : i \in 0..MaxMeasure}

\* setpoints and measures of the sample loop: a sensor may fail high
CycleSamples == CycleVals \cup {PInf}

\* output bounds of the sample loop: none, or [-1, 1]
CycleBounds == {<<NInf, PInf>>, <<F(-1), F(1)>>}

\* a filter context never initialised: zero-filled, or stale contents
LpfZero == [smoothing_factor |-> F(0), y |-> F(0)]

LpfStale == [smoothing_factor |-> F(2), y |-> F(1)]

\* the cap on the filter output: |y| <= MaxOut, and a denominator of at most
\* MaxDen
MaxDen == 16

LpfInRange(y) == isfinite(y) => (Abs(y.n) <= MaxOut * y.d /\ y.d <= MaxDen)

\* smoothing factors: below, at the ends of, inside and above (0, 1)
LpfFactorVals ==
    {F(-1), F(0), Fin(1, 4), Fin(1, 2), F(1), F(2), NaN, PInf}

LpfSeedVals == {F(0), F(1), F(2), NaN, NInf}

LpfInputVals == {F(i) : i \in -1..MaxMeasure} \cup {NaN, PInf}

---------------------------------------------------------------------------
(* the calls a caller makes *)

DoInit(ctx_null, xk_1, xk_2, y_previous, kp, ki, kd) ==
    LET r == epid_init(ctx, ctx_null, xk_1, xk_2, y_previous, kp, ki, kd)
    IN  /\ ctx' = r.ctx
        /\ inited' = (inited \/ r.ret = EPID_ERR_NONE)
        /\ call' = [op |-> "epid_init", ctx_null |-> ctx_null,
                    xk_1 |-> xk_1, xk_2 |-> xk_2, y_previous |-> y_previous,
                    kp |-> kp, ki |-> ki, kd |-> kd, ret |-> r.ret]
        /\ UNCHANGED <<feed, lpf, lpf_inited, run>>

DoInitT(ctx_null, xk_1, xk_2, y_previous, kp, ti, td, sample_period) ==
    LET r == epid_init_T(ctx, ctx_null, xk_1, xk_2, y_previous,
                         kp, ti, td, sample_period)
    IN  /\ ctx' = r.ctx
        /\ inited' = (inited \/ r.ret = EPID_ERR_NONE)
        /\ call' = [op |-> "epid_init_T", ctx_null |-> ctx_null,
                    xk_1 |-> xk_1, xk_2 |-> xk_2, y_previous |-> y_previous,
                    kp |-> kp, ti |-> ti, td |-> td,
                    sample_period |-> sample_period,
                    ret |-> r.ret, delegated |-> r.delegated]
        /\ UNCHANGED <<feed, lpf, lpf_inited, run>>

\* (re-)initialisation while the loop runs
EpidInit ==
    \E kd \in {F(-1), F(3)} :
        DoInit(FALSE, F(0), F(1), F(0), F(2), F(1), kd)

EpidInitT ==
    \E sample_period \in {F(0), Fin(1, 2)} :
        DoInitT(FALSE, F(1), F(0), F(1), F(2), F(1), F(0), sample_period)

EpidPiCalc ==
    \E setpoint, measure \in SampleVals :
        /\ ctx' = epid_pi_calc(ctx, setpoint, measure)
        /\ call' = [op |-> "epid_pi_calc", setpoint |-> setpoint,
                    measure |-> measure]
        /\ UNCHANGED <<inited, feed, lpf, lpf_inited, run>>

EpidPidCalc ==
    \E setpoint, measure \in SampleVals :
        /\ ctx' = epid_pid_calc(ctx, setpoint, measure)
        /\ call' = [op |-> "epid_pid_calc", setpoint |-> setpoint,
                    measure |-> measure]
        /\ UNCHANGED <<inited, feed, lpf, lpf_inited, run>>

EpidPiSum ==
    \E out_min, out_max \in LimitVals :
        /\ InRange(epid_pi_sum(ctx, out_min, out_max).y_out)
        /\ ctx' = epid_pi_sum(ctx, out_min, out_max)
        /\ call' = [op |-> "epid_pi_sum", out_min |-> out_min,
                    out_max |-> out_max]
        /\ UNCHANGED <<inited, feed, lpf, lpf_inited, run>>

EpidPidSum ==
    \E out_min, out_max \in LimitVals :
        /\ InRange(epid_pid_sum(ctx, out_min, out_max).y_out)
        /\ ctx' = epid_pid_sum(ctx, out_min, out_max)
        /\ call' = [op |-> "epid_pid_sum", out_min |-> out_min,
                    out_max |-> out_max]
        /\ UNCHANGED <<inited, feed, lpf, lpf_inited, run>>

EpidUtilIlim ==
    \E i_min, i_max \in LimitVals :
        /\ ctx' = epid_util_ilim(ctx, i_min, i_max)
        /\ call' = [op |-> "epid_util_ilim", i_min |-> i_min,
                    i_max |-> i_max]
        /\ UNCHANGED <<inited, feed, lpf, lpf_inited, run>>

Init ==
    /\ ctx \in {CtxZero, CtxStale}
    /\ inited = FALSE
    /\ call = NoCall
    /\ feed \in Feeds
    /\ lpf = LpfZero
    /\ lpf_inited = FALSE
    /\ run = NoRun

Next ==
    \/ EpidInit
    \/ EpidInitT
    \/ EpidPiCalc
    \/ EpidPidCalc
    \/ EpidPiSum
    \/ EpidPidSum
    \/ EpidUtilIlim

Spec == Init /\ [][Next]_vars

---------------------------------------------------------------------------
(* the sample loop of main: epid_init, then epid_pid_calc and epid_pid_sum *)

\* a record of the loop that is no longer a run of clean cycles keeps no
\* seeds and no sum
Settle(r) ==
    IF r.clean THEN r
    ELSE [r EXCEPT !.x_0 = F(0), !.x_m1 = F(0), !.y0 = F(0),
                   !.xn = F(0), !.xp = F(0), !.isum = F(0), !.cycles = 0]

CycleInit ==
    /\ ~inited
    /\ \E xk_1, xk_2, y_previous \in CycleVals, kd \in {F(-1), F(3)} :
        LET r == epid_init(ctx, FALSE, xk_1, xk_2, y_previous,
                           F(2), F(1), kd)
        IN  /\ ctx' = r.ctx
            /\ inited' = (r.ret = EPID_ERR_NONE)
            /\ call' = [op |-> "epid_init", ctx_null |-> FALSE,
                        xk_1 |-> xk_1, xk_2 |-> xk_2,
                        y_previous |-> y_previous,
                        kp |-> F(2), ki |-> F(1), kd |-> kd, ret |-> r.ret]
            /\ run' = IF r.ret = EPID_ERR_NONE
                      THEN [NoRun EXCEPT !.x_0 = xk_1, !.x_m1 = xk_2,
                                         !.y0 = y_previous, !.xn = xk_1,
                                         !.xp = xk_2, !.clean = TRUE]
                      ELSE NoRun
            /\ UNCHANGED <<feed, lpf, lpf_inited>>

CyclePidCalc ==
    /\ inited
    /\ run.n < MaxSteps
    /\ \E setpoint, measure \in CycleSamples :
        /\ ctx' = epid_pid_calc(ctx, setpoint, measure)
        /\ call' = [op |-> "epid_pid_calc", setpoint |-> setpoint,
                    measure |-> measure]
        /\ run' = Settle(
                     [run EXCEPT
                        !.n = @ + 1,
                        !.xn = measure,
                        !.xp = run.xn,
                        !.isum = FAdd(@, FSub(setpoint, measure)),
                        !.clean = /\ @
                                  /\ call.op \in {"epid_init", "epid_pid_sum"}
                                  /\ isfinite(setpoint)
                                  /\ isfinite(measure),
                        !.steady = IF setpoint # measure THEN 0
                                   ELSE IF @ > 0 /\ run.m = measure
                                   THEN (IF @ < 3 THEN @ + 1 ELSE 3)
                                   ELSE 1,
                        !.m = IF setpoint = measure THEN measure ELSE F(0)])
        /\ UNCHANGED <<inited, feed, lpf, lpf_inited>>

CyclePidSum ==
    /\ inited
    /\ run.n < MaxSteps
    /\ \E b \in CycleBounds :
        LET raw == FAdd(ctx.y_out,
                        FAdd(FAdd(ctx.p_term, ctx.i_term), ctx.d_term))
        IN  /\ ctx' = epid_pid_sum(ctx, b[1], b[2])
            /\ call' = [op |-> "epid_pid_sum", out_min |-> b[1],
                        out_max |-> b[2]]
            /\ run' = Settle(
                         [run EXCEPT
                            !.n = @ + 1,
                            !.cycles = @ + 1,
                            !.clean = /\ @
                                      /\ call.op = "epid_pid_calc"
                                      /\ FLe(b[1], raw)
                                      /\ FLe(raw, b[2])])
            /\ UNCHANGED <<inited, feed, lpf, lpf_inited>>

InitC ==
    /\ ctx \in {CtxZero, CtxStale}
    /\ inited = FALSE
    /\ call = NoCall
    /\ feed = "finite"
    /\ lpf = LpfZero
    /\ lpf_inited = FALSE
    /\ run = NoRun

NextC ==
    \/ CycleInit
    \/ CyclePidCalc
    \/ CyclePidSum

SpecCycle == InitC /\ [][NextC]_vars

---------------------------------------------------------------------------
(* the low-pass filter: initialised, fed, initialised again *)

EpidUtilLpfInit ==
    \E ctx_null \in BOOLEAN, smoothing_factor \in LpfFactorVals,
       x_0 \in LpfSeedVals :
        LET r == epid_util_lpf_init(lpf, ctx_null, smoothing_factor, x_0)
        IN  /\ lpf' = r.lpf
            /\ lpf_inited' = (lpf_inited \/ r.ret = EPID_ERR_NONE)
            /\ call' = [op |-> "epid_util_lpf_init", ctx_null |-> ctx_null,
                        smoothing_factor |-> smoothing_factor,
                        x_0 |-> x_0, ret |-> r.ret]
            /\ UNCHANGED <<ctx, inited, feed, run>>

EpidUtilLpfCalc ==
    \E input \in LpfInputVals :
        /\ LpfInRange(epid_util_lpf_calc(lpf, input).y)
        /\ lpf' = epid_util_lpf_calc(lpf, input)
        /\ call' = [op |-> "epid_util_lpf_calc", input |-> input]
        /\ UNCHANGED <<ctx, inited, feed, lpf_inited, run>>

InitL ==
    /\ ctx = CtxZero
    /\ inited = FALSE
    /\ call = NoCall
    /\ feed = "finite"
    /\ lpf \in {LpfZero, LpfStale}
    /\ lpf_inited = FALSE
    /\ run = NoRun

NextL ==
    \/ EpidUtilLpfInit
    \/ EpidUtilLpfCalc

SpecLpf == InitL /\ [][NextL]_vars

---------------------------------------------------------------------------
(* one initializer call on a context in any condition *)

InitI ==
    /\ ctx \in {CtxZero, CtxStale, CtxRunning}
    /\ inited = (ctx = CtxRunning)
    /\ call = NoCall
    /\ feed = "finite"
    /\ lpf = LpfZero
    /\ lpf_inited = FALSE
    /\ run = NoRun

InitCall ==
    /\ call.op = "none"
    /\ \E ctx_null \in BOOLEAN, xk_1 \in InitXk1Vals, xk_2 \in InitXk2Vals,
          y_previous \in InitYVals, kp, ki, kd \in InitGainVals :
            DoInit(ctx_null, xk_1, xk_2, y_previous, kp, ki, kd)

\* the last disjunct: the tuning kp = 500, ti = 50, td = 20 at a sample
\* period of 0.1 (SAMPLE_TIME_S)
InitTCall ==
    /\ call.op = "none"
    /\ \/ \E ctx_null \in BOOLEAN, xk_1 \in InitXk1Vals,
             xk_2 \in InitXk2Vals, y_previous \in InitYVals,
             kp \in InitGainVals, ti, td, sample_period \in InitTimeVals :
               DoInitT(ctx_null, xk_1, xk_2, y_previous,
                       kp, ti, td, sample_period)
       \/ DoInitT(FALSE, F(20), F(20), F(0),
                  F(500), F(50), F(20), Fin(1, 10))

NextI ==
    \/ InitCall
    \/ InitTCall

SpecInit == InitI /\ [][NextI]_vars

---------------------------------------------------------------------------
(* properties of the initializers, checked under SpecInit *)

\* the seeds and the three gains of an epid_init call are all finite
InitArgsFinite(c) ==
    /\ isfinite(c.xk_1) /\ isfinite(c.xk_2) /\ isfinite(c.y_previous)
    /\ isfinite(c.kp) /\ isfinite(c.ki) /\ isfinite(c.kd)

\* the six fields an initializer sets hold the values x1, x2, y, kp, ki, kd
Holds(c, x1, x2, y, kp, ki, kd) ==
    /\ c.xk_1 = x1 /\ c.xk_2 = x2 /\ c.y_out = y
    /\ c.kp = kp /\ c.ki = ki /\ c.kd = kd

\* C2 as stated: epid_init with finite arguments, a non-null context and
\* gains kp >= 0, ki >= 0, kd >= 0 (zero included) returns EPID_ERR_NONE and
\* leaves kp, ki, kd, xk_1, xk_2, y_out equal to the arguments.
C2_ZeroGainsAccepted ==
    ( /\ call.op = "epid_init"
      /\ ~call.ctx_null
      /\ InitArgsFinite(call)
      /\ FGe(call.kp, F(0)) /\ FGe(call.ki, F(0)) /\ FGe(call.kd, F(0)) )
    => /\ call.ret = EPID_ERR_NONE
       /\ Holds(ctx, call.xk_1, call.xk_2, call.y_previous,
                call.kp, call.ki, call.kd)

\* C2 amended: epid_init with finite arguments, a non-null context and
\* gains kp > 0, ki > 0, kd >= 0 returns EPID_ERR_NONE and leaves kp, ki, kd,
\* xk_1, xk_2, y_out equal to the arguments.
C2_InitCopiesInputs ==
    ( /\ call.op = "epid_init"
      /\ ~call.ctx_null
      /\ InitArgsFinite(call)
      /\ FGt(call.kp, F(0)) /\ FGt(call.ki, F(0)) /\ FGe(call.kd, F(0)) )
    => /\ call.ret = EPID_ERR_NONE
       /\ Holds(ctx, call.xk_1, call.xk_2, call.y_previous,
                call.kp, call.ki, call.kd)

C2_Witness ==
    /\ call.op = "epid_init"
    /\ call.ret = EPID_ERR_NONE
    /\ call.kp = F(2) /\ call.ki = F(1) /\ call.kd = F(0)
    /\ Holds(ctx, F(1), F(2), F(3), F(2), F(1), F(0))
    /\ ctx.p_term = CtxStale.p_term

\* C3: with finite arguments and a non-null context, epid_init returns
\* EPID_ERR_INIT when kp = 0 or ki = 0, and returns EPID_ERR_NONE when kd = 0
\* with kp > 0 and ki > 0.
C3_ZeroGainRejected ==
    ( /\ call.op = "epid_init"
      /\ ~call.ctx_null
      /\ InitArgsFinite(call) )
    => /\ (call.kp = F(0) \/ call.ki = F(0)) => call.ret = EPID_ERR_INIT
       /\ ( /\ call.kd = F(0)
            /\ FGt(call.kp, F(0))
            /\ FGt(call.ki, F(0)) ) => call.ret = EPID_ERR_NONE

C3_Witness ==
    /\ call.op = "epid_init"
    /\ ~call.ctx_null
    /\ InitArgsFinite(call)
    /\ call.kp = F(0) /\ call.ki = F(1) /\ call.kd = F(1)
    /\ call.ret = EPID_ERR_INIT

\* C4: an epid_init call with finite arguments, a non-null context and a
\* negative kp, ki or kd returns EPID_ERR_INIT and leaves every field of the
\* context as it was before the call.
C4_NegativeGainRejected ==
    [][ ( /\ call'.op = "epid_init"
          /\ ~call'.ctx_null
          /\ InitArgsFinite(call')
          /\ \/ FLt(call'.kp, F(0))
             \/ FLt(call'.ki, F(0))
             \/ FLt(call'.kd, F(0)) )
        => /\ call'.ret = EPID_ERR_INIT
           /\ ctx' = ctx ]_vars

C4_Witness ==
    /\ call.op = "epid_init"
    /\ ~call.ctx_null
    /\ InitArgsFinite(call)
    /\ call.kp = F(2) /\ call.ki = F(1) /\ call.kd = F(-1)
    /\ call.ret = EPID_ERR_INIT
    /\ ctx = CtxRunning

\* epid_init_T's own checks pass: ti and sample_period finite and positive,
\* td not negative
TimesPass(c) ==
    /\ isfinite(c.ti) /\ isfinite(c.sample_period)
    /\ ~FLe(c.ti, F(0)) /\ ~FLt(c.td, F(0)) /\ ~FLe(c.sample_period, F(0))

\* C6: an epid_init_T call that passes its own ti/td/sample_period checks
\* returns what epid_init returns, and leaves the context epid_init leaves,
\* for the same context, seeds and kp with ki = (kp * sample_period) / ti
\* and kd = kp * (td / sample_period); kp = 500, ti = 50, td = 20,
\* sample_period = 0.1 stores ki = 1 and kd = 100000.
C6_InitTDelegates ==
    [][ (call'.op = "epid_init_T" /\ TimesPass(call'))
        => LET c  == call'
               ki == FDiv(FMul(c.kp, c.sample_period), c.ti)
               kd == FMul(c.kp, FDiv(c.td, c.sample_period))
               r  == epid_init(ctx, c.ctx_null, c.xk_1, c.xk_2,
                               c.y_previous, c.kp, ki, kd)
           IN  /\ c.delegated
               /\ c.ret = r.ret
               /\ ctx' = r.ctx
               /\ (c.ret = EPID_ERR_NONE) => (ctx'.ki = ki /\ ctx'.kd = kd)
               /\ (c.kp = F(500) /\ c.ti = F(50) /\ c.td = F(20)
                      /\ c.sample_period = Fin(1, 10))
                   => /\ c.ret = EPID_ERR_NONE
                      /\ ctx'.ki = F(1)
                      /\ ctx'.kd = F(100000) ]_vars

C6_Witness ==
    /\ call.op = "epid_init_T"
    /\ call.kp = F(500) /\ call.ti = F(50) /\ call.td = F(20)
    /\ call.sample_period = Fin(1, 10)
    /\ call.ret = EPID_ERR_NONE
    /\ Holds(ctx, F(20), F(20), F(0), F(500), F(1), F(100000))

\* C7: an epid_init_T call with finite ti, td, sample_period and ti <= 0 or
\* sample_period <= 0 or td < 0 returns EPID_ERR_INIT without calling
\* epid_init and leaves the context unchanged; with finite arguments and a
\* non-null context, td = 0 with ti > 0, sample_period > 0, kp > 0 returns
\* EPID_ERR_NONE and stores kd = 0.
C7_BadTimesRejected ==
    [][ (call'.op = "epid_init_T")
        => LET c == call'
           IN  /\ ( /\ isfinite(c.ti) /\ isfinite(c.td)
                    /\ isfinite(c.sample_period)
                    /\ \/ FLe(c.ti, F(0))
                       \/ FLe(c.sample_period, F(0))
                       \/ FLt(c.td, F(0)) )
                   => /\ c.ret = EPID_ERR_INIT
                      /\ ~c.delegated
                      /\ ctx' = ctx
               /\ ( /\ ~c.ctx_null
                    /\ isfinite(c.xk_1) /\ isfinite(c.xk_2)
                    /\ isfinite(c.y_previous) /\ isfinite(c.kp)
                    /\ isfinite(c.ti) /\ isfinite(c.sample_period)
                    /\ c.td = F(0)
                    /\ FGt(c.ti, F(0)) /\ FGt(c.sample_period, F(0))
                    /\ FGt(c.kp, F(0)) )
                   => /\ c.ret = EPID_ERR_NONE
                      /\ ctx'.kd = F(0) ]_vars

C7_Witness ==
    /\ call.op = "epid_init_T"
    /\ call.ti = F(2) /\ call.td = F(-1) /\ call.sample_period = Fin(1, 2)
    /\ call.kp = F(2) /\ ~call.ctx_null
    /\ isfinite(call.xk_1) /\ isfinite(call.xk_2)
    /\ isfinite(call.y_previous)
    /\ call.ret = EPID_ERR_INIT
    /\ ~call.delegated
    /\ ctx = CtxRunning

\* the accepting half of C7 happens as well
C7_WitnessPI ==
    /\ call.op = "epid_init_T"
    /\ call.td = F(0) /\ call.ret = EPID_ERR_NONE
    /\ ctx.kd = F(0) /\ ctx.kp = F(2) /\ ctx.ki = Fin(1, 2)

---------------------------------------------------------------------------
(* properties of the running loop, checked under Spec *)

SumOps == {"epid_pi_sum", "epid_pid_sum"}

\* C1: on a context an initializer has accepted, whatever calls came before
\* and with whatever arguments, right after an epid_pi_sum or epid_pid_sum
\* call made with out_min <= out_max: out_min <= y_out <= out_max.
C1_OutputWithinBounds ==
    ( /\ inited
      /\ call.op \in SumOps
      /\ FLe(call.out_min, call.out_max) )
    => /\ FLe(call.out_min, ctx.y_out)
       /\ FLe(ctx.y_out, call.out_max)

\* a summation that saturated at the ceiling
C1_Witness ==
    /\ inited
    /\ call.op = "epid_pid_sum"
    /\ call.out_min = F(-1) /\ call.out_max = F(1)
    /\ FGt(FAdd(FAdd(ctx.p_term, ctx.i_term), ctx.d_term), F(3))
    /\ ctx.y_out = F(1)

\* C5: once an initializer has returned EPID_ERR_NONE, in every later state
\* kp >= 0, ki >= 0 and kd >= 0.
C5_GainsNonNegative ==
    inited => /\ FGe(ctx.kp, F(0))
              /\ FGe(ctx.ki, F(0))
              /\ FGe(ctx.kd, F(0))

\* a context in use on which a re-initialisation has just failed
C5_Witness ==
    /\ inited
    /\ call.op = "epid_init"
    /\ call.kd = F(-1)
    /\ call.ret = EPID_ERR_INIT
    /\ ctx.kd = F(0)
    /\ ctx.p_term = F(2)

\* 2*x[k-1] - x[k-2] - x[k], from the history before the call
DBracket(c, measure) == FSub(FSub(FMul(F(2), c.xk_1), c.xk_2), measure)

\* the round-trip scenario: xk_1 = xk_2 = 20, y_out = 0, gains 10/10/10
CtxScenario ==
    [kp |-> F(10), ki |-> F(10), kd |-> F(10), xk_1 |-> F(20),
     xk_2 |-> F(20), p_term |-> F(0), i_term |-> F(0), d_term |-> F(0),
     y_out |-> F(0)]

C9_DTermScaledByKp ==
    [][ (call'.op = "epid_pid_calc")
        => ctx'.d_term = FMul(ctx.kp, DBracket(ctx, call'.measure)) ]_vars

\* C10: epid_pi_calc(setpoint, measure) sets p_term = kp * (xk_1 - measure)
\* from the xk_1 before the call and i_term = ki * (setpoint - measure), then
\* xk_1 = measure; d_term, xk_2, y_out, kp, ki, kd are unchanged.
C10_PiCalc ==
    [][ (call'.op = "epid_pi_calc")
        => LET sp == call'.setpoint
               m  == call'.measure
           IN  /\ ctx'.p_term = FMul(ctx.kp, FSub(ctx.xk_1, m))
               /\ ctx'.i_term = FMul(ctx.ki, FSub(sp, m))
               /\ ctx'.xk_1 = m
               /\ ctx'.d_term = ctx.d_term
               /\ ctx'.xk_2 = ctx.xk_2
               /\ ctx'.y_out = ctx.y_out
               /\ ctx'.kp = ctx.kp /\ ctx'.ki = ctx.ki /\ ctx'.kd = ctx.kd
       ]_vars

\* two PI steps in a row after a PID step: d_term and xk_2 are the stale ones
C10_Witness ==
    /\ inited
    /\ call.op = "epid_pi_calc"
    /\ call.measure = F(0)
    /\ ctx.kp = F(2)
    /\ ctx.xk_1 = F(0) /\ ctx.xk_2 = F(1)
    /\ ctx.p_term = F(2)
    /\ ctx.d_term = F(-6)

---------------------------------------------------------------------------
(* the running loop, continued: non-interference, summation, anti-windup *)

CalcOps == {"epid_pi_calc", "epid_pid_calc"}

InitOps == {"epid_init", "epid_init_T"}

\* the calculation named op, run on c
CalcOf(op, c, setpoint, measure) ==
    IF op = "epid_pid_calc" THEN epid_pid_calc(c, setpoint, measure)
    ELSE epid_pi_calc(c, setpoint, measure)

\* C11: two runs of epid_pid_calc (likewise epid_pi_calc) from the same
\* context with the same measure and different setpoints end with the same
\* p_term, d_term, xk_1 and xk_2; only i_term may differ (the two contexts
\* are equal once i_term is set aside).
C11_SetpointNonInterference ==
    [][ (call'.op \in CalcOps)
        => \A setpoint2 \in SampleVals :
               [CalcOf(call'.op, ctx, setpoint2, call'.measure)
                   EXCEPT !.i_term = ctx'.i_term] = ctx'
       ]_vars

\* a PID step whose setpoint shows in i_term, next to a non-zero p_term and
\* d_term that another setpoint would have left the same
C11_Witness ==
    /\ inited
    /\ call.op = "epid_pid_calc"
    /\ call.setpoint = F(1) /\ call.measure = F(0)
    /\ ctx.i_term = ctx.ki /\ ctx.ki # F(0)
    /\ ctx.p_term = F(2)
    /\ ctx.d_term # F(0)

\* clamp(v, lo, hi) for lo <= hi
Saturate(v, lo, hi) ==
    IF FLt(v, lo) THEN lo ELSE IF FGt(v, hi) THEN hi ELSE v

\* what a summation adds to y_out
RawSum(op, c) ==
    IF op = "epid_pid_sum"
    THEN FAdd(c.y_out, FAdd(FAdd(c.p_term, c.i_term), c.d_term))
    ELSE FAdd(c.y_out, FAdd(c.p_term, c.i_term))

\* the fields a summation reads are finite
SumFieldsFinite(op, c) ==
    /\ isfinite(c.y_out) /\ isfinite(c.p_term) /\ isfinite(c.i_term)
    /\ (op = "epid_pid_sum" => isfinite(c.d_term))

\* a term a summation reads is NaN
SumTermNaN(op, c) ==
    \/ isnan(c.p_term)
    \/ isnan(c.i_term)
    \/ (op = "epid_pid_sum" /\ isnan(c.d_term))

\* C12: for finite fields and out_min <= out_max, epid_pid_sum sets y_out to
\* clamp(y_out + p_term + i_term + d_term) and epid_pi_sum to
\* clamp(y_out + p_term + i_term); a raw sum above out_max gives out_max, one
\* below out_min gives out_min; no other field changes. With y_out = 0,
\* terms 0/300/0 and bounds [0, 255] the result is 255.
C12_SumResult ==
    [][ (/\ call'.op \in SumOps
         /\ SumFieldsFinite(call'.op, ctx)
         /\ FLe(call'.out_min, call'.out_max))
        => LET raw == RawSum(call'.op, ctx)
               lo  == call'.out_min
               hi  == call'.out_max
           IN  /\ ctx' = [ctx EXCEPT !.y_out = Saturate(raw, lo, hi)]
               /\ (FGt(raw, hi) => ctx'.y_out = hi)
               /\ (FLt(raw, lo) => ctx'.y_out = lo)
               /\ epid_pid_sum([CtxZero EXCEPT !.i_term = F(300)],
                               F(0), F(255)).y_out = F(255)
       ]_vars

\* a PI summation that ignored a non-zero d_term and stopped at the ceiling
C12_Witness ==
    /\ inited
    /\ call.op = "epid_pi_sum"
    /\ call.out_min = F(-1) /\ call.out_max = F(1)
    /\ ctx.y_out = F(1)
    /\ ctx.p_term = F(2) /\ ctx.i_term = F(1)
    /\ isfinite(ctx.d_term) /\ ctx.d_term # F(0)

\* C13: if p_term, i_term or (PID) d_term is NaN when a summation is called
\* on a context whose y_out is not NaN, then for any bounds
\* out_min <= out_max y_out afterwards equals y_out before, and is not NaN.
C13_RollbackKeepsValue ==
    [][ (/\ call'.op \in SumOps
         /\ SumTermNaN(call'.op, ctx)
         /\ ~isnan(ctx.y_out)
         /\ FLe(call'.out_min, call'.out_max))
        => (ctx'.y_out = ctx.y_out /\ ~isnan(ctx'.y_out)) ]_vars

\* C13 (as the code has it): under the same conditions y_out afterwards is
\* the clamp of y_out before into [out_min, out_max], hence y_out before
\* when that lay within the bounds; it is not NaN and no other field
\* changes.
C13_RollbackThenClamp ==
    [][ (/\ call'.op \in SumOps
         /\ SumTermNaN(call'.op, ctx)
         /\ ~isnan(ctx.y_out)
         /\ FLe(call'.out_min, call'.out_max))
        => LET lo == call'.out_min
               hi == call'.out_max
           IN  /\ ctx' = [ctx EXCEPT !.y_out = Saturate(ctx.y_out, lo, hi)]
               /\ ~isnan(ctx'.y_out)
               /\ (FLe(lo, ctx.y_out) /\ FLe(ctx.y_out, hi)
                      => ctx'.y_out = ctx.y_out)
       ]_vars

\* a summation that met a NaN i_term and left a finite y_out at the floor
C13_Witness ==
    /\ inited
    /\ call.op = "epid_pid_sum"
    /\ isnan(ctx.i_term)
    /\ call.out_min = F(-1) /\ call.out_max = F(1)
    /\ ctx.y_out = F(-1)

\* C14: if y_out is NaN before a summation it is NaN after it, and after any
\* further calculation, anti-windup or summation call, whatever the terms
\* and bounds; only a successful initialisation gives a normal y_out again.
C14_NaNOutputPermanent ==
    [][ (/\ isnan(ctx.y_out)
         /\ ~(call'.op \in InitOps /\ call'.ret = EPID_ERR_NONE))
        => isnan(ctx'.y_out) ]_vars

\* a summation of finite terms between finite bounds on a NaN y_out
C14_Witness ==
    /\ ~inited
    /\ call.op \in SumOps
    /\ isnan(ctx.y_out)
    /\ isfinite(ctx.p_term) /\ isfinite(ctx.i_term) /\ isfinite(ctx.d_term)
    /\ call.out_min = F(-1) /\ call.out_max = F(1)

\* C15: epid_util_ilim(i_min, i_max) with i_min <= i_max sets i_term to
\* i_max if i_term > i_max, to i_min if i_term < i_min, leaves it as it is
\* if i_min <= i_term <= i_max, and changes no other field; i_term = 1000
\* with limits [-100, 100] becomes 100.
C15_IlimClamp ==
    [][ (call'.op = "epid_util_ilim" /\ FLe(call'.i_min, call'.i_max))
        => LET lo == call'.i_min
               hi == call'.i_max
               i  == ctx.i_term
           IN  /\ (FGt(i, hi) => ctx'.i_term = hi)
               /\ (FLt(i, lo) => ctx'.i_term = lo)
               /\ (FLe(lo, i) /\ FLe(i, hi) => ctx'.i_term = i)
               /\ [ctx' EXCEPT !.i_term = i] = ctx
               /\ epid_util_ilim([CtxZero EXCEPT !.i_term = F(1000)],
                                 F(-100), F(100)).i_term = F(100)
       ]_vars

\* an infinite i_term cut down to the upper limit
C15_Witness ==
    /\ inited
    /\ feed = "inf"
    /\ call.op = "epid_util_ilim"
    /\ call.i_min = F(-1) /\ call.i_max = F(1)
    /\ ctx.i_term = F(1)
    /\ ctx.xk_1 = F(0)

---------------------------------------------------------------------------
(* the initializers, continued: which error a bad call reports *)

\* an argument of the epid_init_T call c is NaN or infinite
InitTArgNonFinite(c) ==
    \/ ~isfinite(c.xk_1) \/ ~isfinite(c.xk_2) \/ ~isfinite(c.y_previous)
    \/ ~isfinite(c.kp)
    \/ ~isfinite(c.ti) \/ ~isfinite(c.td) \/ ~isfinite(c.sample_period)

\* the time constants of the epid_init_T call c pass its sign tests
\* (a NaN td passes: td < 0 is false)
InitTSignsPass(c) ==
    /\ FGt(c.ti, F(0))
    /\ FGt(c.sample_period, F(0))
    /\ ~FLt(c.td, F(0))

\* C18: with a non-null context, epid_init returns EPID_ERR_FLT whenever any
\* of xk_1, xk_2, y_previous, kp, ki, kd is NaN or infinite, and epid_init_T
\* returns EPID_ERR_FLT whenever any of xk_1, xk_2, y_previous, kp, ti, td,
\* sample_period is NaN or infinite; the context is not modified.
C18_NonFiniteIsFlt ==
    [][ (/\ call'.op \in InitOps
         /\ ~call'.ctx_null
         /\ IF call'.op = "epid_init" THEN ~InitArgsFinite(call')
            ELSE InitTArgNonFinite(call'))
        => (call'.ret = EPID_ERR_FLT /\ ctx' = ctx) ]_vars

\* C18 (as the code has it): with a non-null context and a NaN or infinite
\* argument, epid_init returns EPID_ERR_FLT; epid_init_T returns
\* EPID_ERR_FLT if ti or sample_period is the NaN or infinite one or if
\* ti > 0, sample_period > 0 and td is not negative, and EPID_ERR_INIT
\* otherwise; the context is not modified.
C18_NonFiniteRejected ==
    [][ (/\ call'.op \in InitOps
         /\ ~call'.ctx_null
         /\ IF call'.op = "epid_init" THEN ~InitArgsFinite(call')
            ELSE InitTArgNonFinite(call'))
        => LET c == call'
           IN  /\ ctx' = ctx
               /\ c.op = "epid_init" => c.ret = EPID_ERR_FLT
               /\ c.op = "epid_init_T"
                    => c.ret = IF \/ ~isfinite(c.ti)
                                  \/ ~isfinite(c.sample_period)
                                  \/ InitTSignsPass(c)
                               THEN EPID_ERR_FLT ELSE EPID_ERR_INIT
       ]_vars

\* td = -infinity alone is reported as a parameter error
C18_Witness ==
    /\ call.op = "epid_init_T"
    /\ ~call.ctx_null
    /\ call.xk_1 = F(1) /\ call.xk_2 = F(2) /\ call.y_previous = F(3)
    /\ call.kp = F(2)
    /\ call.ti = F(2) /\ call.td = NInf /\ call.sample_period = Fin(1, 2)
    /\ call.ret = EPID_ERR_INIT
    /\ ctx = CtxRunning

\* a gain of the epid_init call c fails its sign test
InitGainBad(c) ==
    \/ FLe(c.kp, F(0))
    \/ FLe(c.ki, F(0))
    \/ FLt(c.kd, F(0))

\* C19: epid_init tests the null context first, the gain signs next and
\* finiteness last: a call with a null context returns EPID_ERR_INIT
\* whatever the scalar arguments (a NaN or infinite one included), and so
\* does a call with a negative gain and a NaN or infinite other argument.
C19_NullAndSignFirst ==
    (call.op = "epid_init")
        => /\ call.ctx_null => call.ret = EPID_ERR_INIT
           /\ ( /\ \/ FLt(call.kp, F(0))
                   \/ FLt(call.ki, F(0))
                   \/ FLt(call.kd, F(0))
                /\ ~InitArgsFinite(call) )
               => call.ret = EPID_ERR_INIT

\* C19 (as the code has it): epid_init tests finiteness first, the null
\* context and the gain signs next: a call with a NaN or infinite argument
\* returns EPID_ERR_FLT, with a null context or a bad gain as well; a call
\* with finite arguments and a null context or a bad gain returns
\* EPID_ERR_INIT.
C19_FinitenessFirst ==
    (call.op = "epid_init")
        => /\ ~InitArgsFinite(call) => call.ret = EPID_ERR_FLT
           /\ (InitArgsFinite(call) /\ (call.ctx_null \/ InitGainBad(call)))
               => call.ret = EPID_ERR_INIT

\* a null context, a negative gain and a NaN seed together: EPID_ERR_FLT
C19_Witness ==
    /\ call.op = "epid_init"
    /\ call.ctx_null
    /\ call.kp = F(-1)
    /\ isnan(call.xk_1)
    /\ isfinite(call.xk_2) /\ isfinite(call.y_previous)
    /\ isfinite(call.ki) /\ isfinite(call.kd)
    /\ call.ret = EPID_ERR_FLT

---------------------------------------------------------------------------
(* the running loop: the accumulator *)

\* C20: after a successful epid_init / epid_init_T, y_out is not NaN in any
\* state reached by calculation, anti-windup and summation calls, even with
\* NaN or infinite setpoints, measures, limits or bounds.
C20_OutputNeverNaN == inited => ~isnan(ctx.y_out)

\* a summation that met a NaN term and NaN bounds
C20_Witness ==
    /\ inited
    /\ call.op \in SumOps
    /\ SumTermNaN(call.op, ctx)
    /\ isnan(call.out_min) /\ isnan(call.out_max)
    /\ ~isnan(ctx.y_out)
    /\ ctx.y_out # F(0)

---------------------------------------------------------------------------
(* properties of the low-pass filter, checked under SpecLpf *)

\* C16: a successful epid_util_lpf_init(a, x_0) stores smoothing_factor = a
\* and the scaled seed y = a * x_0; each epid_util_lpf_calc(input) sets y to
\* y + a * (input - y) from the y before the call and leaves smoothing_factor
\* as it is. With a = 1/2 and x_0 = 10, y = 5; then input 20 gives y = 25/2.
C16_LpfRecurrence ==
    [][ /\ (call'.op = "epid_util_lpf_init" /\ call'.ret = EPID_ERR_NONE)
            => /\ lpf'.smoothing_factor = call'.smoothing_factor
               /\ lpf'.y = FMul(call'.smoothing_factor, call'.x_0)
        /\ (call'.op = "epid_util_lpf_calc")
            => /\ lpf'.y = FAdd(lpf.y, FMul(lpf.smoothing_factor,
                                             FSub(call'.input, lpf.y)))
               /\ lpf'.smoothing_factor = lpf.smoothing_factor
        /\ LET f0 == epid_util_lpf_init(LpfZero, FALSE, Fin(1, 2), F(10))
           IN  /\ f0.ret = EPID_ERR_NONE
               /\ f0.lpf.y = F(5)
               /\ epid_util_lpf_calc(f0.lpf, F(20)).y = Fin(25, 2)
      ]_vars

\* a seed of 2 stored as 1/2 * 2 = 1
C16_Witness ==
    /\ call.op = "epid_util_lpf_init"
    /\ call.ret = EPID_ERR_NONE
    /\ call.smoothing_factor = Fin(1, 2) /\ call.x_0 = F(2)
    /\ lpf.y = F(1)

\* the recurrence at work: a filter seeded with 1 and fed 0 twice
C16_WitnessCalc ==
    /\ lpf_inited
    /\ call.op = "epid_util_lpf_calc"
    /\ call.input = F(0)
    /\ lpf = [smoothing_factor |-> Fin(1, 2), y |-> Fin(1, 4)]

---------------------------------------------------------------------------
(* the running loop: re-initialisation *)

\* the last call was an initializer that returned EPID_ERR_NONE
InitSucceeded(c) == c.op \in InitOps /\ c.ret = EPID_ERR_NONE

\* C22: a successful epid_init / epid_init_T overwrites only kp, ki, kd,
\* xk_1, xk_2 and y_out and leaves p_term, i_term, d_term as they were; a
\* summation issued right after it adds those terms, computed before the
\* reset, to the new y_out.
C22_ReinitKeepsTerms ==
    [][ /\ InitSucceeded(call')
            => /\ ctx'.p_term = ctx.p_term
               /\ ctx'.i_term = ctx.i_term
               /\ ctx'.d_term = ctx.d_term
               /\ ctx'.y_out = call'.y_previous
               /\ [ctx' EXCEPT !.kp = ctx.kp, !.ki = ctx.ki, !.kd = ctx.kd,
                               !.xk_1 = ctx.xk_1, !.xk_2 = ctx.xk_2,
                               !.y_out = ctx.y_out] = ctx
        /\ ( /\ InitSucceeded(call)
             /\ call'.op \in SumOps
             /\ SumFieldsFinite(call'.op, ctx)
             /\ FLe(call'.out_min, call'.out_max) )
            => LET stale == IF call'.op = "epid_pid_sum"
                            THEN FAdd(FAdd(ctx.p_term, ctx.i_term),
                                      ctx.d_term)
                            ELSE FAdd(ctx.p_term, ctx.i_term)
               IN  ctx'.y_out = Saturate(FAdd(call.y_previous, stale),
                                         call'.out_min, call'.out_max)
      ]_vars

\* a controller reset to y_out = 0 on a context whose terms came from a
\* calculation before the reset
C22_Witness ==
    /\ inited
    /\ InitSucceeded(call)
    /\ call.y_previous = F(0)
    /\ ctx.y_out = F(0)
    /\ ctx.p_term = F(-2)
    /\ ctx.i_term = F(1)
    /\ ctx.d_term # F(0)

\* the summation after such a reset: the old terms moved the new y_out
C22_WitnessSum ==
    /\ inited
    /\ call.op = "epid_pid_sum"
    /\ call.out_min = F(-1) /\ call.out_max = F(1)
    /\ ctx.xk_1 = F(0) /\ ctx.xk_2 = F(1)
    /\ ctx.p_term = F(-2)
    /\ ctx.y_out = F(-1)

---------------------------------------------------------------------------
(* the low-pass filter: its output stays in range *)

FMin(x, y) == IF FLt(y, x) THEN y ELSE x

FMax(x, y) == IF FGt(y, x) THEN y ELSE x

\* |x - y| for finite x and y
Dist(x, y) == IF FLt(x, y) THEN FSub(y, x) ELSE FSub(x, y)

\* the ranges [lo, hi] an input sequence is held in
RangeVals == {F(i) : i \in -1..MaxOut}

\* C24: for a filter with 0 < smoothing_factor < 1, after every
\* epid_util_lpf_calc(input) the new y lies between the old y and the input;
\* hence an input and a y both in [lo, hi] give a y in [lo, hi], and the
\* distance of y to the input does not grow (so it never grows under a
\* constant input).
C24_LpfBetween ==
    [][ (/\ call'.op = "epid_util_lpf_calc"
         /\ FGt(lpf.smoothing_factor, F(0))
         /\ FLt(lpf.smoothing_factor, F(1))
         /\ isfinite(lpf.y) /\ isfinite(call'.input))
        => LET x == call'.input
           IN  /\ FLe(FMin(lpf.y, x), lpf'.y)
               /\ FLe(lpf'.y, FMax(lpf.y, x))
               /\ FLe(Dist(x, lpf'.y), Dist(x, lpf.y))
               /\ \A lo, hi \in RangeVals :
                      ( /\ FLe(lo, lpf.y) /\ FLe(lpf.y, hi)
                        /\ FLe(lo, x) /\ FLe(x, hi) )
                      => (FLe(lo, lpf'.y) /\ FLe(lpf'.y, hi))
      ]_vars

\* a filter at 1/4 fed 1: the output moved up, and not past the input
C24_Witness ==
    /\ lpf_inited
    /\ call.op = "epid_util_lpf_calc"
    /\ call.input = F(1)
    /\ lpf = [smoothing_factor |-> Fin(1, 4), y |-> Fin(7, 16)]

---------------------------------------------------------------------------
(* properties of the sample loop, checked under SpecCycle *)

\* the positional form of the output after the clean cycles recorded in r
\* with the gains of c
Positional(r, c) ==
    FAdd(FAdd(FAdd(r.y0,
                   FMul(c.kp, FSub(r.x_0, r.xn))),
              FMul(c.ki, r.isum)),
         FMul(c.kd, FSub(FSub(r.x_0, r.x_m1), FSub(r.xn, r.xp))))

C23_SteadyStateFixedPoint ==
    [][ /\ (run'.steady >= 1 /\ isfinite(run'.m)) => ctx'.i_term = F(0)
        /\ (run'.steady >= 2 /\ isfinite(run'.m)) => ctx'.p_term = F(0)
        /\ (run'.steady >= 3 /\ isfinite(run'.m)) => ctx'.d_term = F(0)
        /\ ( /\ call'.op = "epid_pid_sum"
             /\ run.steady >= 3 /\ isfinite(run.m)
             /\ FLe(call'.out_min, ctx.y_out)
             /\ FLe(ctx.y_out, call'.out_max) )
            => ctx'.y_out = ctx.y_out
      ]_vars

\* a moving loop brought to rest at m = 1: the summation after the third
\* steady calculation left a non-zero y_out where it was
C23_Witness ==
    /\ inited
    /\ call.op = "epid_pid_sum"
    /\ call.out_min = F(-1) /\ call.out_max = F(1)
    /\ run.steady = 3 /\ run.m = F(1)
    /\ run.n > 4
    /\ ctx.xk_1 = F(1) /\ ctx.xk_2 = F(1)
    /\ ctx.y_out = F(-1)

\* the same after a sensor failure: an infinite y_out stays where it is
C23_WitnessInf ==
    /\ inited
    /\ call.op = "epid_pid_sum"
    /\ run.steady = 3 /\ isfinite(run.m)
    /\ ctx.y_out = NInf

\* the second steady call: p_term is zero, d_term is not yet
C23_WitnessSecond ==
    /\ inited
    /\ call.op = "epid_pid_calc"
    /\ run.steady = 2
    /\ ctx.p_term = F(0) /\ ctx.i_term = F(0)
    /\ ctx.d_term # F(0)

=============================================================================
